---- MODULE Spec2Model ----
(***************************************************************************)
(* Coordinate-keyed dataset cache, coordinate resolver and the two         *)
(* orchestrations (the synchronous predict view and main_fishing.run) of   *)
(* the forecasting backend.                                                *)
(*                                                                         *)
(* Numbers.  Latitudes and longitudes are integers in units of 1e-5        *)
(* degree.  Trigonometry is evaluated in fixed point inside 32-bit         *)
(* integers: angles in micro-radians, sines in units of 1e-6, cosines in   *)
(* units of 1e-4, the haversine term a in units of 1e-10, distances in      *)
(* millimetres.  The fixed-point evaluation is valid for points at most    *)
(* about five degrees apart, which covers the points used here.            *)
(***************************************************************************)
EXTENDS Integers, Sequences, FiniteSets, TLC

Abs(x) == IF x >= 0 THEN x ELSE -x

Sgn(x) == IF x >= 0 THEN 1 ELSE -1

(* math.radians: degrees (1e-5 deg) -> micro-radians, x * 0.1745329 *)
radians(x) ==
    Sgn(x) * ((Abs(x) * 17) \div 100 + (Abs(x) * 45) \div 10000
              + (Abs(x) * 33) \div 1000000)

(* math.sin of a small angle, micro-radians -> 1e-6: x - x^3/6 *)
sin(x) ==
    LET ax == Abs(x)
    IN  Sgn(x) * (ax - (((ax * ax) \div 1000000) * ax) \div 6000000)

(* math.cos, micro-radians -> 1e-4: 1 - y^2/2 + y^4/24 - y^6/720 + y^8/40320 *)
cos(x) ==
    LET y  == Abs(x) \div 100
        y2 == (y * y) \div 10000
        y4 == (y2 * y2) \div 10000
        y6 == (y4 * y2) \div 10000
        y8 == (y4 * y4) \div 10000
    IN  10000 - y2 \div 2 + y4 \div 24 - y6 \div 720 + y8 \div 40320

RECURSIVE SqrtSearch(_, _, _)
SqrtSearch(n, lo, hi) ==
    IF hi - lo <= 1 THEN lo
    ELSE LET mid == (lo + hi) \div 2
         IN  IF mid * mid <= n THEN SqrtSearch(n, mid, hi)
                               ELSE SqrtSearch(n, lo, mid)

(* math.sqrt: a in 1e-10 -> root in 1e-6 *)
sqrt(a) == SqrtSearch(a * 100, 0, 46341)

(* math.asin of a small argument, 1e-6 -> micro-radians: x + x^3/6 *)
asin(x) == x + (((x * x) \div 1000000) * x) \div 6000000

(* Earth radius in km *)
EARTH_RADIUS_KM == 6371

(* great-circle distance of two points, in millimetres *)
haversine(lat1, lon1, lat2, lon2) ==
    LET rlat1 == radians(lat1)
        rlon1 == radians(lon1)
        rlat2 == radians(lat2)
        rlon2 == radians(lon2)
        dlat  == rlat2 - rlat1
        dlon  == rlon2 - rlon1
        s1    == sin(dlat \div 2)
        s2    == sin(dlon \div 2)
        cc    == (cos(rlat1) * cos(rlat2)) \div 10000
        a     == (s1 * s1) \div 100 + (((cc * Abs(s2)) \div 10000) * Abs(s2)) \div 100
        c     == 2 * asin(sqrt(a))
    IN  EARTH_RADIUS_KM * c

MAX_DISTANCE_KM == 20

(***************************************************************************)
(* Inputs.                                                                 *)
(***************************************************************************)

(* Query points <<lat, lon>>: Kyiv; a point 1.2 km from it; a point 16.7   *)
(* km north of Kyiv and 11.1 km south of the last; a point 27.8 km north   *)
(* of Kyiv.                                                                *)
Points ==
    { <<5045010, 3052340>>, <<5046000, 3053000>>,
      <<5060000, 3052000>>, <<5070000, 3052000>> }

(* number of main_fishing.run invocations *)
MaxRuns == 2

Runs == 1..MaxRuns

(* number of predict requests *)
MaxRequests == 2

Requests == 1..MaxRequests

(* calendar days, as day numbers: date.today() during the run *)
Days == 10..11

(* requested target dates *)
Targets == {5, 8, 10}

(* the point the predict view is asked about: 1.2 km from Kyiv; its        *)
(* dataset keys differ by asof                                             *)
ViewPoints == {<<5046000, 3053000>>}

VARIABLES
    coordFile,  \* saved_coords.json: [st: "absent" | "ok" | "corrupt", coords: sequence]
    yearCsv,    \* coordinates <<LAT, LON>> whose fishing_year_values_<LAT>_<LON>.csv exists
    run,        \* the main_fishing.run invocations
    today,      \* date.today()
    disk,       \* dataset directories under the data root: directory -> its files
    fcout,      \* forecast_out of each dataset directory: its forecast files, oldest first
    req,        \* the predict requests
    call,       \* the last call of a helper function: its arguments and what it returned
    batch,      \* a per-day ingestion script: its days, records and errors
    ev          \* the evaluation loop of main_fishing.run over a forecast table

runVars == <<coordFile, yearCsv, run>>

viewVars == <<today, disk, fcout, req>>

auxVars == <<call, batch, ev>>

vars == <<coordFile, yearCsv, run, today, disk, fcout, req, call, batch, ev>>

(***************************************************************************)
(* CoordinateResolver: find_existing.                                      *)
(***************************************************************************)

Close(lat, lon, c) ==
    haversine(lat, lon, c.lat, c.lon) <= MAX_DISTANCE_KM * 1000000

(* the coordinates of a store file, and whether one of them lies within    *)
(* MAX_DISTANCE_KM of a point                                              *)
Stored(file) == {<<file.coords[i].lat, file.coords[i].lon>> : i \in 1..Len(file.coords)}

HasClose(file, lat, lon) ==
    file.st = "ok" /\ \E i \in 1..Len(file.coords) : Close(lat, lon, file.coords[i])

(* the for-loop of find_existing: index of the first stored coordinate     *)
(* within MAX_DISTANCE_KM, 0 when the loop ends without a return           *)
RECURSIVE FirstClose(_, _, _, _)
FirstClose(coords, i, lat, lon) ==
    IF i > Len(coords) THEN 0
    ELSE IF Close(lat, lon, coords[i]) THEN i
    ELSE FirstClose(coords, i + 1, lat, lon)

(* find_existing returning the query point on a match *)
find_existing_query(file, lat, lon) ==
    IF file.st = "absent"
    THEN [raised |-> FALSE, flag |-> FALSE, coord |-> <<lat, lon>>]
    ELSE IF file.st = "corrupt"
    THEN [raised |-> TRUE, flag |-> FALSE, coord |-> <<lat, lon>>]
    ELSE [raised |-> FALSE, flag |-> FirstClose(file.coords, 1, lat, lon) > 0,
          coord |-> <<lat, lon>>]

(* find_existing(lat, lon) on the file as it is: raised is json.load (or   *)
(* the loop over a malformed document) throwing out of the function        *)
find_existing(file, lat, lon) ==
    IF file.st = "absent"
    THEN [raised |-> FALSE, flag |-> FALSE, coord |-> <<lat, lon>>]
    ELSE IF file.st = "corrupt"
    THEN [raised |-> TRUE, flag |-> FALSE, coord |-> <<lat, lon>>]
    ELSE LET i == FirstClose(file.coords, 1, lat, lon)
         IN  IF i > 0
             THEN [raised |-> FALSE, flag |-> TRUE,
                   coord |-> <<file.coords[i].lat, file.coords[i].lon>>]
             ELSE [raised |-> FALSE, flag |-> FALSE, coord |-> <<lat, lon>>]

(* find_existing that remembers the query point when it finds no match *)
FileAfterFindEager(file, lat, lon) ==
    IF file.st = "corrupt" \/ find_existing(file, lat, lon).flag THEN file
    ELSE [st |-> "ok",
          coords |-> Append(file.coords, [lat |-> lat, lon |-> lon])]

(* saved_coords.json after find_existing: the function opens it for        *)
(* reading only                                                            *)
FileAfterFind(file, lat, lon) == file

(***************************************************************************)
(* main_fishing.run: resolve the coordinate, build the year dataset on a   *)
(* miss, register the coordinate, forecast from the dataset's csv.         *)
(***************************************************************************)

AbsentFile == [st |-> "absent", coords |-> <<>>]

CorruptFile == [st |-> "corrupt", coords |-> <<>>]

IdleRun ==
    [pc |-> "idle", lat |-> 0, lon |-> 0, flag |-> FALSE, LAT |-> 0, LON |-> 0,
     seen |-> AbsentFile, ver |-> 0, registered |-> FALSE, csv |-> <<>>]

(* registrations made so far *)
NumRegistered == Cardinality({p \in Runs : run[p].registered})

(* "if not flag: Fishing_parse_data_for_year.main(LAT, LON)" *)
AfterFind(flag) == IF flag THEN "arima" ELSE "parse"

(* line 48 of run: flag, (LAT, LON) = find_existing(lat, lon); an          *)
(* exception of find_existing ends the invocation                         *)
RunFindExisting(p) ==
    /\ run[p].pc = "idle"
    /\ \E pt \in Points :
         LET res == find_existing(coordFile, pt[1], pt[2])
         IN  /\ run' = [run EXCEPT ![p] =
                   [pc |-> IF res.raised THEN "failed_find" ELSE AfterFind(res.flag),
                    lat |-> pt[1], lon |-> pt[2], flag |-> res.flag,
                    LAT |-> res.coord[1], LON |-> res.coord[2],
                    seen |-> coordFile, ver |-> NumRegistered,
                    registered |-> FALSE, csv |-> <<>>]]
             /\ coordFile' = FileAfterFind(coordFile, pt[1], pt[2])
    /\ UNCHANGED <<yearCsv, viewVars, auxVars>>

(* the parser went on to registration although it built no dataset *)
AfterParseAlways(ok) == "register"

(* the year parser registers the coordinate once its dataset is written;   *)
(* its failure ends the invocation                                        *)
AfterParse(ok) == IF ok THEN "register" ELSE "failed_parse"

(* Fishing_parse_data_for_year.main(LAT, LON): build the year dataset      *)
RunParse(p) ==
    /\ run[p].pc = "parse"
    /\ \E ok \in BOOLEAN :
         /\ yearCsv' = IF ok THEN yearCsv \cup {<<run[p].LAT, run[p].LON>>}
                             ELSE yearCsv
         /\ run' = [run EXCEPT ![p].pc = AfterParse(ok)]
    /\ UNCHANGED <<coordFile, viewVars, auxVars>>

(* the store written back from the copy loaded at resolution time *)
RegisteredFileStale(file, seen, c) ==
    [st |-> "ok", coords |-> Append(seen.coords, c)]

(* the store after the serialized read-modify-write that appends c; an     *)
(* absent or unreadable store counts as empty                             *)
RegisteredFile(file, seen, c) ==
    [st |-> "ok",
     coords |-> Append(IF file.st = "ok" THEN file.coords ELSE <<>>, c)]

(* registration of the new coordinate, one atomic update of the store *)
RunRegister(p) ==
    /\ run[p].pc = "register"
    /\ coordFile' = RegisteredFile(coordFile, run[p].seen,
                                   [lat |-> run[p].LAT, lon |-> run[p].LON])
    /\ run' = [run EXCEPT ![p].pc = "arima", ![p].registered = TRUE]
    /\ UNCHANGED <<yearCsv, viewVars, auxVars>>

(* csv_name = f"fishing_year_values_{LAT}_{LON}.csv": the coordinate that  *)
(* names the dataset file                                                 *)
csv_name(LAT, LON) == <<LAT, LON>>

(* lines 55-62 of run: the forecast reads the csv named by (LAT, LON); a   *)
(* missing csv or a failed fit ends the invocation                        *)
RunArima(p) ==
    /\ run[p].pc = "arima"
    /\ \E fit \in BOOLEAN :
         run' = [run EXCEPT
                   ![p].csv = csv_name(run[p].LAT, run[p].LON),
                   ![p].pc = IF csv_name(run[p].LAT, run[p].LON) \in yearCsv /\ fit
                             THEN "done" ELSE "failed_arima"]
    /\ UNCHANGED <<coordFile, yearCsv, viewVars, auxVars>>

(***************************************************************************)
(* The predict view: compute_effective_horizon, ensure_dataset (with the   *)
(* parser it runs as a subprocess), run_arima_and_read_row.                *)
(***************************************************************************)

(* compute_effective_horizon(target, lag_days) on the day tdy *)
compute_effective_horizon(tdy, target, lag_days) ==
    [horizon |-> target - (tdy - lag_days), asof |-> tdy - lag_days]

(* a horizon calculator that forgets the source lag *)
compute_asof_and_horizon_nolag(tdy, target, lag_days) ==
    <<tdy - lag_days, target - tdy>>

(* compute_asof_and_horizon(target, lag_days) of the predictor on the day  *)
(* tdy: the pair <<asof, horizon>>                                         *)
compute_asof_and_horizon(tdy, target, lag_days) ==
    LET asof == tdy - lag_days
    IN  <<asof, target - asof>>

(* a test that lets a horizon of zero days through *)
too_close_strict(horizon) == horizon < 0

(* the test both callers put behind the horizon calculator: "if horizon <= *)
(* 0", answered 400 by the view and SystemExit by the predictor            *)
too_close(horizon) == horizon <= 0

(* q(v) of coord_token: the sign letter and abs(v) printed with 4 decimals *)
(* (v in 1e-5 degree, the printed number in 1e-4 degree, halves upwards)   *)
q(v) == <<IF v >= 0 THEN "n" ELSE "s", (Abs(v) + 5) \div 10>>

coord_token(lat, lon) == <<q(lat), q(lon)>>

(* dataset_dir: <root>/<activity>/<coord_token>/asof_<YYYYMMDD> *)
dataset_dir(activity_slug, lat, lon, asof) ==
    <<activity_slug, coord_token(lat, lon), asof>>

NoFile == [st |-> "absent", by |-> 0, lat |-> 0, lon |-> 0]

EmptyDir == [merged |-> NoFile, manifest |-> NoFile, ready |-> FALSE]

(* a mkdir that leaves a fresh, empty directory *)
mkdir_fresh(dk, d) == (d :> EmptyDir) @@ dk

(* Path.mkdir(parents=True, exist_ok=True) *)
mkdir(dk, d) == IF d \in DOMAIN dk THEN dk ELSE (d :> EmptyDir) @@ dk

(* merged_csv.exists() *)
merged_exists(dk, d) == d \in DOMAIN dk /\ dk[d].merged.st # "absent"

IdleReq ==
    [pc |-> "idle", lat |-> 0, lon |-> 0, target |-> 0, horizon |-> 0, asof |-> 0,
     dir |-> <<>>, saw |-> "absent", after |-> FALSE, afterFail |-> FALSE,
     near |-> FALSE, nfetch |-> 0,
     fetchFailed |-> FALSE, wroteMerged |-> FALSE, wroteManifest |-> FALSE,
     ensured |-> FALSE, used |-> NoFile,
     day |-> 0, returned |-> FALSE, day2 |-> 0, asof2 |-> 0, horizon2 |-> 0,
     row |-> 0, fitFailed |-> FALSE, from |-> 0]

(* source lag of the view: lag_days=3 *)
LAG_DAYS == 3

(* PredictView.post up to the horizon test: a target too close is answered *)
(* 400                                                                     *)
PostStart(r) ==
    /\ req[r].pc = "idle"
    /\ \E pt \in ViewPoints, target \in Targets :
         LET h == compute_effective_horizon(today, target, LAG_DAYS)
         IN  req' = [req EXCEPT ![r] =
                 [IdleReq EXCEPT !.pc = IF too_close(h.horizon)
                                       THEN "rejected" ELSE "ensure",
                                 !.lat = pt[1], !.lon = pt[2], !.target = target,
                                 !.day = today, !.returned = TRUE,
                                 !.near = HasClose(coordFile, pt[1], pt[2]),
                                 !.horizon = h.horizon, !.asof = h.asof]]
    /\ UNCHANGED <<today, fcout, disk, runVars, auxVars>>

(* ensure_dataset that always runs the parser *)
needs_fetch_always(exists) == TRUE

(* "if not merged_csv.exists():" *)
needs_fetch(exists) == ~exists

(* ensure_dataset up to the existence test of merged.csv *)
EnsureCheck(r) ==
    /\ req[r].pc = "ensure"
    /\ LET d == dataset_dir("fishing", req[r].lat, req[r].lon, req[r].asof)
           exists == merged_exists(disk, d)
       IN  /\ disk' = mkdir(disk, d)
           /\ req' = [req EXCEPT
                        ![r].dir = d,
                        ![r].saw = IF exists THEN disk[d].merged.st ELSE "absent",
                        ![r].after = \E o \in Requests \ {r} :
                                        req[o].ensured /\ req[o].dir = d,
                        ![r].afterFail = \E o \in Requests \ {r} :
                                        req[o].fetchFailed /\ req[o].dir = d,
                        ![r].pc = IF needs_fetch(exists) THEN "fetch" ELSE "manifest"]
    /\ UNCHANGED <<today, fcout, runVars, auxVars>>

(* subprocess.run without check=True: the parser's failure goes unnoticed *)
after_parser_failure_unchecked == "manifest"

(* subprocess.run(cmd, check=True): a failed parser raises out of          *)
(* ensure_dataset                                                          *)
after_parser_failure == "failed_ensure"

(* the parser's fetch_hourly and hourly_to_daily: one request to the       *)
(* archive, which fails (an exception, exit status 1) or yields the series *)
ParserFetch(r) ==
    /\ req[r].pc = "fetch"
    /\ \E ok \in BOOLEAN :
         req' = [req EXCEPT ![r].nfetch = @ + 1,
                            ![r].fetchFailed = ~ok,
                            ![r].pc = IF ok THEN "write" ELSE after_parser_failure]
    /\ UNCHANGED <<today, fcout, disk, runVars, auxVars>>

(* the parser's dfd.to_csv(merged.csv): written whole, or cut short (the   *)
(* process dies, the disk fills) with the truncated file left behind       *)
ParserWrite(r) ==
    /\ req[r].pc = "write"
    /\ \E whole \in BOOLEAN :
         /\ disk' = [disk EXCEPT ![req[r].dir].merged =
                        [NoFile EXCEPT !.st = IF whole THEN "ok" ELSE "corrupt",
                                       !.by = r]]
         /\ req' = [req EXCEPT ![r].wroteMerged = TRUE,
                               ![r].pc = IF whole THEN "finish" ELSE after_parser_failure]
    /\ UNCHANGED <<today, fcout, runVars, auxVars>>

(* the parser's own manifest.json and READY, then its exit *)
ParserFinish(r) ==
    /\ req[r].pc = "finish"
    /\ disk' = [disk EXCEPT ![req[r].dir].manifest =
                   [st |-> "parser", by |-> r, lat |-> req[r].lat, lon |-> req[r].lon],
                            ![req[r].dir].ready = TRUE]
    /\ req' = [req EXCEPT ![r].pc = "manifest"]
    /\ UNCHANGED <<today, fcout, runVars, auxVars>>

(* the end of ensure_dataset: DatasetManifest(...).dump(manifest_path),    *)
(* on the miss path and on the hit path alike; created_at is the moment of *)
(* this call, told apart by the calling request                            *)
EnsureManifest(r) ==
    /\ req[r].pc = "manifest"
    /\ disk' = [disk EXCEPT ![req[r].dir].manifest =
                   [st |-> "ensure", by |-> r, lat |-> req[r].lat, lon |-> req[r].lon]]
    /\ req' = [req EXCEPT ![r].wroteManifest = TRUE, ![r].ensured = TRUE,
                          ![r].pc = "arima"]
    /\ UNCHANGED <<today, fcout, runVars, auxVars>>

(* infer_freq_or_daily with the offset of the frequency it returns, on the *)
(* sorted dates of the series: pandas.infer_freq needs three dates (0: it  *)
(* raises); evenly spaced days give their spacing; an irregular series     *)
(* gives None and the step is one day                                      *)
infer_freq_or_daily(idx) ==
    IF Len(idx) < 3 THEN 0
    ELSE IF \A i \in 1..(Len(idx) - 1) : idx[i + 1] - idx[i] = idx[2] - idx[1]
         THEN idx[2] - idx[1]
         ELSE 1

(* a forecast index that starts on the last historical date *)
future_idx_from_last(last, step, horizon) ==
    [i \in 1..horizon |-> last + (i - 1) * step]

(* future_idx: date_range(start = last + step, periods = horizon, freq)    *)
future_idx(last, step, horizon) ==
    [i \in 1..horizon |-> (last + step) + (i - 1) * step]

(* the last date of a merged.csv of the directory for asof as pandas reads *)
(* it: a whole file ends on asof; a file cut short is unreadable (0) or    *)
(* ends earlier                                                            *)
LastDates(file, asof) ==
    IF file.st = "ok" THEN {asof} ELSE {0, asof - 1}

(* forecast_out of directory d with one more file *)
WithForecast(fc, d, f) ==
    IF d \in DOMAIN fc THEN [fc EXCEPT ![d] = Append(@, f)]
    ELSE (d :> <<f>>) @@ fc

(* TARGETS: the columns the predictor fits a model for *)
TARGETS == {"air_temp_C", "pressure_kPa", "wind_speed_m_s", "estimated_water_temp_C"}

(* the target whose model does not fit, "none" when all fit *)
FitFailures == TARGETS \cup {"none"}

(* a fitting loop that leaves out the target whose model does not fit *)
fit_targets_skip(present_targets, failing) ==
    [ok |-> TRUE, cols |-> present_targets \ {failing}]

(* the loop "for target in present_targets" of the predictor: the fit of   *)
(* the target failing ("none": of no target) raises and ends the run;      *)
(* else every present target gets its column                               *)
fit_targets(present_targets, failing) ==
    IF failing \in present_targets THEN [ok |-> FALSE, cols |-> {}]
    ELSE [ok |-> TRUE, cols |-> present_targets]

(* the predictor run_arima_and_read_row starts as a subprocess: it takes   *)
(* asof from date.today() again, resolves the dataset directory (made if   *)
(* missing; an empty one, a missing or an unreadable merged.csv end it),   *)
(* loads merged.csv, fits, and writes the forecast table into forecast_out *)
(* of the directory the view hands it                                      *)
ViewArima(r) ==
    /\ req[r].pc = "arima"
    /\ LET ah == compute_asof_and_horizon(today, req[r].target, LAG_DAYS)
           asof == ah[1]
           horizon == ah[2]
           d == dataset_dir("fishing", req[r].lat, req[r].lon, asof)
           present == d \in DOMAIN disk
                      /\ (disk[d].merged.st # "absent" \/ disk[d].manifest.st # "absent")
           me == [req[r] EXCEPT !.day2 = today, !.asof2 = asof, !.horizon2 = horizon]
       IN  IF too_close(horizon)
           THEN /\ req' = [req EXCEPT ![r] = [me EXCEPT !.pc = "failed_arima"]]
                /\ UNCHANGED <<disk, fcout>>
           ELSE /\ disk' = mkdir(disk, d)
                /\ IF ~present \/ ~merged_exists(disk, d)
                   THEN /\ req' = [req EXCEPT ![r] = [me EXCEPT !.pc = "failed_arima"]]
                        /\ fcout' = fcout
                   ELSE \E failing \in FitFailures,
                             last \in LastDates(disk[d].merged, asof) :
                          LET fit == fit_targets(TARGETS, failing)
                          IN  IF fit.ok /\ last # 0
                              THEN /\ req' = [req EXCEPT ![r] =
                                        [me EXCEPT !.used = disk[d].merged,
                                                   !.fitFailed = failing # "none",
                                                   !.pc = "read"]]
                                   /\ fcout' = WithForecast(fcout, req[r].dir,
                                        [by |-> r, cols |-> fit.cols,
                                         dates |-> future_idx(last, 1, horizon)])
                              ELSE /\ req' = [req EXCEPT ![r] =
                                        [me EXCEPT !.used = disk[d].merged,
                                                   !.fitFailed = (last # 0 /\ failing # "none"),
                                                   !.pc = "failed_arima"]]
                                   /\ fcout' = fcout
    /\ UNCHANGED <<today, runVars, auxVars>>

(* the row run_arima_and_read_row hands back out of the forecast table df: *)
(* the one dated target, else the last one (0: the table has no rows)      *)
read_row(df, target) ==
    IF \E i \in 1..Len(df) : df[i] = target THEN target
    ELSE IF Len(df) > 0 THEN df[Len(df)] ELSE 0

(* run_arima_and_read_row after the predictor: the newest forecast file of *)
(* forecast_out is read and one row of it returned                         *)
ViewReadRow(r) ==
    /\ req[r].pc = "read"
    /\ LET candidates == IF req[r].dir \in DOMAIN fcout THEN fcout[req[r].dir] ELSE <<>>
       IN  IF candidates = <<>>
           THEN req' = [req EXCEPT ![r].pc = "failed_arima"]
           ELSE LET row == read_row(candidates[Len(candidates)].dates, req[r].target)
                IN  req' = [req EXCEPT ![r].row = row,
                                       ![r].from = candidates[Len(candidates)].by,
                                       ![r].pc = IF row = 0 THEN "failed_arima" ELSE "done"]
    /\ UNCHANGED <<today, disk, fcout, runVars, auxVars>>

(* midnight *)
Tick ==
    /\ today + 1 \in Days
    /\ today' = today + 1
    /\ UNCHANGED <<disk, fcout, req, runVars, auxVars>>

(***************************************************************************)
(* MoonPhaseModel and the forecast table of the predictor.                 *)
(* Dates are day numbers counted from the epoch 2000-01-06 (day 0); time   *)
(* spans are in 1e-5 day and cycle fractions in 1e-4.                      *)
(***************************************************************************)

(* SYNODIC_MONTH = 29.53058867 days, in 1e-5 day *)
SYNODIC_MONTH == 2953059

(* CANON_FRAC in the order of the dict, anchors in 1e-4 *)
CANON_FRAC ==
    << [lab |-> "New Moon", f |-> 0],
       [lab |-> "First Quarter", f |-> 2500],
       [lab |-> "Full Moon", f |-> 5000],
       [lab |-> "Last Quarter", f |-> 7500],
       [lab |-> "Waning", f |-> 8100],
       [lab |-> "Waxing", f |-> 3100] >>

(* MoonPhaseLabel: the labels a merged series carries *)
Labels == {CANON_FRAC[i].lab : i \in 1..Len(CANON_FRAC)}

(* a remainder that takes the sign of the dividend, as C's fmod does *)
fmod(a, b) == IF a >= 0 THEN a % b ELSE -((-a) % b)

(* Python's % with a positive modulus: the remainder of floor division *)
pymod(a, b) == a % b

(* the first k decimal digits of r / s for a remainder r of s *)
RECURSIVE Quot(_, _, _)
Quot(r, s, k) ==
    IF k = 0 THEN 0
    ELSE ((r * 10) \div s) * 10^(k - 1) + Quot((r * 10) % s, s, k - 1)

(* lunar_phase_fraction(d): days = (d - epoch).days + 0.5, then            *)
(* (days % SYNODIC_MONTH) / SYNODIC_MONTH                                  *)
lunar_phase_fraction(d) ==
    LET days == d * 100000 + 50000
    IN  Quot(pymod(days, SYNODIC_MONTH), SYNODIC_MONTH, 4)

(* d = min(abs(frac - f), 1.0 - abs(frac - f)) *)
circular_distance(frac, f) ==
    LET a == Abs(frac - f)
    IN  IF a <= 10000 - a THEN a ELSE 10000 - a

(* the loop over the candidates that lets a later label win a tie *)
RECURSIVE NearestLoopLast(_, _, _, _, _)
NearestLoopLast(i, frac, allowed_labels, best_label, best_dist) ==
    IF i > Len(CANON_FRAC) THEN best_label
    ELSE IF CANON_FRAC[i].lab \notin allowed_labels
         THEN NearestLoopLast(i + 1, frac, allowed_labels, best_label, best_dist)
         ELSE LET d == circular_distance(frac, CANON_FRAC[i].f)
              IN  IF d <= best_dist
                  THEN NearestLoopLast(i + 1, frac, allowed_labels, CANON_FRAC[i].lab, d)
                  ELSE NearestLoopLast(i + 1, frac, allowed_labels, best_label, best_dist)

(* the loop of nearest_label_from_training over the candidates, the        *)
(* entries of CANON_FRAC whose label is allowed, from entry i on: "if d <  *)
(* best_dist" keeps the earlier label on a tie                             *)
RECURSIVE NearestLoop(_, _, _, _, _)
NearestLoop(i, frac, allowed_labels, best_label, best_dist) ==
    IF i > Len(CANON_FRAC) THEN best_label
    ELSE IF CANON_FRAC[i].lab \notin allowed_labels
         THEN NearestLoop(i + 1, frac, allowed_labels, best_label, best_dist)
         ELSE LET d == circular_distance(frac, CANON_FRAC[i].f)
              IN  IF d < best_dist
                  THEN NearestLoop(i + 1, frac, allowed_labels, CANON_FRAC[i].lab, d)
                  ELSE NearestLoop(i + 1, frac, allowed_labels, best_label, best_dist)

(* the parser's nearest_phase_label: the nearest of all canonical labels,  *)
(* whatever the training series holds                                      *)
nearest_phase_label(frac, allowed_labels) ==
    NearestLoop(1, frac, Labels, "None", 1000000000)

(* a nearest label whose ties go to the later entry *)
nearest_label_last(frac, allowed_labels) ==
    IF allowed_labels \cap Labels = {} THEN "New Moon"
    ELSE NearestLoopLast(1, frac, allowed_labels, "None", 1000000000)

(* nearest_label_from_training(frac, allowed_labels) *)
nearest_label_from_training(frac, allowed_labels) ==
    IF allowed_labels \cap Labels = {} THEN "New Moon"
    ELSE NearestLoop(1, frac, allowed_labels, "None", 1000000000)

(* the categories of a string column in the order pandas keeps them:       *)
(* sorted                                                                  *)
LabelOrder ==
    <<"First Quarter", "Full Moon", "Last Quarter", "New Moon", "Waning", "Waxing">>

(* the first of the categories cats, "None" when there is none *)
first_category(cats) ==
    IF cats = {} THEN "None"
    ELSE LabelOrder[CHOOSE i \in 1..Len(LabelOrder) :
                        /\ LabelOrder[i] \in cats
                        /\ \A j \in 1..(i - 1) : LabelOrder[j] \notin cats]

(* pd.get_dummies(ser.astype("category"), prefix="moon", drop_first=True,  *)
(* dummy_na=True): a column for every category of ser but the first, and   *)
(* the column of the missing value; a row is the set of its columns that   *)
(* hold 1                                                                  *)
get_dummies(ser) ==
    LET cats == {ser[i] : i \in 1..Len(ser)}
        kept == cats \ {first_category(cats)}
    IN  [columns |-> kept \cup {"nan"},
         rows |-> [i \in 1..Len(ser) |-> {ser[i]} \cap kept]]

(* frame.reindex(columns=columns, fill_value=0.0): the columns of frame    *)
(* that are not asked for are dropped, the ones it lacks are filled with 0 *)
reindex(frame, columns) ==
    [columns |-> columns,
     rows |-> [i \in 1..Len(frame.rows) |-> frame.rows[i] \cap columns]]

(* build_future_exog: the label of every future date, restricted to the    *)
(* categories of the training column, and the dummies of these labels      *)
build_future_exog(train_moon_ser, future_index) ==
    LET allowed == {train_moon_ser[i] : i \in 1..Len(train_moon_ser)}
        future_labels == [i \in 1..Len(future_index) |->
            nearest_label_from_training(lunar_phase_fraction(future_index[i]), allowed)]
    IN  [fut |-> get_dummies(future_labels), future_moon |-> future_labels]

(* the predictor on a series given as a CSV with an explicit horizon: the  *)
(* forecast table, or no table when the frequency cannot be inferred       *)
(* (fewer than three dates), date_range refuses a negative number of       *)
(* periods, a model does not fit, or get_forecast refuses zero steps.      *)
(* fitted: the run got as far as fitting the first model; exog_train and   *)
(* exog_future are the regressors of the fit and of the forecast           *)
arima_main(series, horizon, fit) ==
    LET idx == [i \in 1..Len(series) |-> series[i].date]
        step == infer_freq_or_daily(idx)
        moon_ser == [i \in 1..Len(series) |-> series[i].moon_phase]
        exog_train == get_dummies(moon_ser)
        future == future_idx(idx[Len(idx)], step, horizon)
        built == build_future_exog(moon_ser, future)
        exog_future == reindex(built.fut, exog_train.columns)
    IN  IF step = 0 \/ horizon < 0
        THEN [ok |-> FALSE, fitted |-> FALSE, rows |-> <<>>,
              exog_train |-> exog_train, exog_future |-> [columns |-> {}, rows |-> <<>>]]
        ELSE IF ~fit \/ horizon = 0
        THEN [ok |-> FALSE, fitted |-> TRUE, rows |-> <<>>,
              exog_train |-> exog_train, exog_future |-> exog_future]
        ELSE [ok |-> TRUE, fitted |-> TRUE,
              rows |-> [i \in 1..horizon |->
                          [date |-> future[i], moon_phase |-> built.future_moon[i]]],
              exog_train |-> exog_train, exog_future |-> exog_future]

(* cycle fractions handed to nearest_label_from_training *)
Fracs == {50 * k : k \in 0..199}

(* dates handed to lunar_phase_fraction: two months either side of the     *)
(* epoch, and 2025-01-10                                                   *)
PhaseDates == (-60..60) \cup {9136}

(* coordinates in 1e-5 degree either side of zero *)
TokenVals == {-6, -1, 1, 4}

(* longest forecast horizon asked of the predictor *)
MaxHorizon == 3

(* the values of --horizon: any integer argparse takes *)
Horizons == (-1)..MaxHorizon

(* most gaps between the dates of a historical series *)
MaxGaps == 3

(* first dates of the historical series *)
Starts == {-4, 9100}

(* labels found in the historical series *)
TrainLabels == {"Full Moon", "Waning", "Waxing"}

(* the dates that start on start and go on by the gaps *)
RECURSIVE DatesFrom(_, _, _)
DatesFrom(start, gaps, n) ==
    IF n = 0 THEN <<start>>
    ELSE LET before == DatesFrom(start, gaps, n - 1)
         IN  Append(before, before[n] + gaps[n])

CallCoordToken ==
    /\ call.fn = "none"
    /\ \E a \in TokenVals \X TokenVals, b \in TokenVals \X TokenVals :
         call' = [fn |-> "coord_token", a |-> a, b |-> b,
                  ta |-> coord_token(a[1], a[2]), tb |-> coord_token(b[1], b[2]),
                  da |-> dataset_dir("fishing", a[1], a[2], 7),
                  db |-> dataset_dir("fishing", b[1], b[2], 7)]
    /\ UNCHANGED <<runVars, viewVars, batch, ev>>

CallNearest ==
    /\ call.fn = "none"
    /\ \E frac \in Fracs, allowed \in SUBSET Labels :
         call' = [fn |-> "nearest_label_from_training", frac |-> frac, allowed |-> allowed,
                  out |-> nearest_label_from_training(frac, allowed)]
    /\ UNCHANGED <<runVars, viewVars, batch, ev>>

CallPhase ==
    /\ call.fn = "none"
    /\ \E d \in PhaseDates :
         call' = [fn |-> "lunar_phase_fraction", d |-> d, out |-> lunar_phase_fraction(d)]
    /\ UNCHANGED <<runVars, viewVars, batch, ev>>

CallForecast ==
    /\ call.fn = "none"
    /\ \E start \in Starts, n \in 1..MaxGaps, horizon \in Horizons, fit \in BOOLEAN :
         \E gaps \in [1..n -> 1..2], labs \in [1..(n + 1) -> TrainLabels] :
            LET dates == DatesFrom(start, gaps, n)
                series == [i \in 1..(n + 1) |-> [date |-> dates[i], moon_phase |-> labs[i]]]
            IN  call' = [fn |-> "arima_main", series |-> series, horizon |-> horizon,
                         out |-> arima_main(series, horizon, fit)]
    /\ UNCHANGED <<runVars, viewVars, batch, ev>>

(* the call returns *)
CallReturn ==
    /\ call.fn # "none"
    /\ call' = [fn |-> "none"]
    /\ UNCHANGED <<runVars, viewVars, batch, ev>>

(***************************************************************************)
(* The per-day ingestion scripts: fishing, forest-camping, outdoor.        *)
(* A worker fetches one day; the main thread takes the results as they     *)
(* complete.  What a fetch gives is [err, rec, raised]: an error message,  *)
(* a record, or an exception that leaves the worker.                       *)
(***************************************************************************)

(* days of a batch *)
MaxBatchDays == 2

BatchDays == 1..MaxBatchDays

Scripts == {"fishing", "forest", "outdoor"}

(* what a service answers for one day: the values, a request error, a body *)
(* without the expected keys, a body with null values, the -999.0 sentinel *)
Outcomes == {"ok", "request_error", "malformed", "null", "sentinel"}

(* fetch_day_data of the fishing and forest scripts, and fetch_power_daily *)
(* of the outdoor script: everything but a full answer ends in the except  *)
(* branch or the sentinel test and returns (error, None)                   *)
fetch_day_data(outcome) ==
    IF outcome = "ok"
    THEN [err |-> FALSE, rec |-> TRUE, raised |-> FALSE]
    ELSE [err |-> TRUE, rec |-> FALSE, raised |-> FALSE]

(* fetch_open_meteo_archive_vars: a request error is returned as an error; *)
(* missing keys give None values without an error; a null in the hourly    *)
(* list makes sum() raise outside any try                                  *)
fetch_open_meteo_archive_vars(outcome) ==
    IF outcome = "request_error" THEN [err |-> TRUE, rec |-> FALSE, raised |-> FALSE]
    ELSE IF outcome = "null" THEN [err |-> FALSE, rec |-> FALSE, raised |-> TRUE]
    ELSE [err |-> FALSE, rec |-> TRUE, raised |-> FALSE]

(* fetch_day_all of the outdoor script: no record without the POWER        *)
(* values; an archive error is noted and the record kept                   *)
fetch_day_all(power, archive) ==
    LET p == fetch_day_data(power)
        a == fetch_open_meteo_archive_vars(archive)
    IN  IF p.err THEN p
        ELSE IF a.raised THEN a
        ELSE [err |-> a.err, rec |-> TRUE, raised |-> FALSE]

(* a table saved in the order its records were collected *)
sort_values_none(records) == records

(* the least of a non-empty set of days *)
MinDay(S) == CHOOSE d \in S : \A e \in S : d <= e

(* the days S in ascending order *)
RECURSIVE Ascending(_)
Ascending(S) ==
    IF S = {} THEN <<>>
    ELSE <<MinDay(S)>> \o Ascending(S \ {MinDay(S)})

(* pd.DataFrame(records).sort_values("date"): the records, one per day,    *)
(* in ascending order of their date                                        *)
sort_values(records) ==
    LET pos(d) == CHOOSE k \in 1..Len(records) : records[k] = d
        days == Ascending({records[k] : k \in 1..Len(records)})
    IN  [k \in 1..Len(days) |-> records[pos(days[k])]]

IdleBatch == [pc |-> "idle"]

(* the script starts: every day is submitted to the pool *)
BatchStart ==
    /\ batch.pc = "idle"
    /\ \E script \in Scripts :
         batch' = [pc |-> "collect", script |-> script, pending |-> BatchDays,
                   power |-> [d \in BatchDays |-> "none"],
                   archive |-> [d \in BatchDays |-> "none"],
                   records |-> <<>>, errors |-> <<>>, wrote |-> FALSE, saved |-> <<>>]
    /\ UNCHANGED <<runVars, viewVars, call, ev>>

(* one turn of "for future in as_completed(futures)": future.result() of   *)
(* some day that is still out, then the two appends; an exception of the   *)
(* worker comes out of future.result() and ends the script                 *)
BatchDay ==
    /\ batch.pc = "collect"
    /\ \E d \in batch.pending, power \in Outcomes, archive \in Outcomes \ {"sentinel"} :
         LET res == IF batch.script = "outdoor" THEN fetch_day_all(power, archive)
                    ELSE fetch_day_data(power)
             seen == [batch EXCEPT !.power[d] = power,
                                   !.archive[d] = IF batch.script = "outdoor"
                                                  THEN archive ELSE "none",
                                   !.pending = @ \ {d}]
         IN  batch' = IF res.raised THEN [seen EXCEPT !.pc = "aborted"]
                      ELSE [seen EXCEPT
                              !.errors = IF res.err THEN Append(@, d) ELSE @,
                              !.records = IF res.rec THEN Append(@, d) ELSE @]
    /\ UNCHANGED <<runVars, viewVars, call, ev>>

(* after the loop: "if records:" the table, sorted by date, is saved *)
BatchSave ==
    /\ batch.pc = "collect"
    /\ batch.pending = {}
    /\ batch' = [batch EXCEPT !.pc = "done",
                               !.wrote = batch.records # <<>>,
                               !.saved = IF batch.records # <<>>
                                         THEN sort_values(batch.records) ELSE <<>>]
    /\ UNCHANGED <<runVars, viewVars, call, ev>>

(***************************************************************************)
(* The evaluation loop of main_fishing.run over the forecast table.        *)
(***************************************************************************)

(* most rows of a forecast table handed to the loop *)
MaxRows == 4

(* what the call of the evaluation service comes to *)
EvalOutcomes == {"success", "api_exception", "malformed_response", "missing_api_key"}

(* evaluate_fishing_with_gemini: the rows of the frame it returns, one     *)
(* with the rating or with "N/A", none when GEMINI_API_KEY is not set      *)
evaluate_fishing_with_gemini(outcome) ==
    IF outcome = "missing_api_key" THEN <<>>
    ELSE IF outcome = "success" THEN <<[rating |-> "good"]>>
    ELSE <<[rating |-> "N/A"]>>

(* the forecast table of h rows that arima_predict_fishing.main returns    *)
(* for a series that ends on the day last: one row a day from last + 1 on  *)
ForecastTable(last, h) ==
    [i \in 1..h |-> [date |-> last + i,
                     moon_phase |-> CANON_FRAC[((i - 1) % Len(CANON_FRAC)) + 1].lab,
                     air_temp_C |-> 10 + i]]

(* horizon: Optional[int] = 12 *)
DEFAULT_HORIZON == 12

(* the arguments of run: an Optional is <<>> for None, else <<value>> *)
TargetDates == {<<>>, <<10>>, <<12>>}

HorizonArgs == {<<DEFAULT_HORIZON>>, <<>>, <<0>>, <<2>>}

(* the last date of the year dataset the forecast reads: today's, or one   *)
(* that ends where the source's data end                                   *)
LastHistorical == {today - LAG_DAYS, today}

IdleEval == [pc |-> "idle"]

(* max(1, n) *)
max1(n) == IF n >= 1 THEN n ELSE 1

(* run, lines 40-45: "if horizon is None": without a target_date           *)
(* ValueError, else horizon = max(1, (target_date - today).days); a        *)
(* horizon that is given is taken as it is                                 *)
EvalStart ==
    /\ ev.pc = "idle"
    /\ \E target_date \in TargetDates, horizon \in HorizonArgs :
         ev' = [pc |-> IF horizon = <<>> /\ target_date = <<>>
                       THEN "failed_args" ELSE "resolve",
                target_date |-> target_date, horizon_arg |-> horizon,
                horizon |-> IF horizon # <<>> THEN horizon[1]
                            ELSE IF target_date # <<>>
                                 THEN max1(target_date[1] - today) ELSE 0,
                flag |-> FALSE, parsing |-> FALSE, parsed |-> FALSE,
                last |-> 0, future_df |-> <<>>, i |-> 1,
                final_results |-> <<>>, csv |-> <<>>]
    /\ UNCHANGED <<runVars, viewVars, call, batch>>

(* run, lines 48-52: the coordinate is resolved, and on a miss the year    *)
(* parser is started                                                       *)
EvalResolve ==
    /\ ev.pc = "resolve"
    /\ \E flag \in BOOLEAN :
         ev' = [ev EXCEPT !.flag = flag, !.parsing = ~flag,
                          !.pc = IF flag THEN "arima" ELSE "parse"]
    /\ UNCHANGED <<runVars, viewVars, call, batch>>

(* Fishing_parse_data_for_year.main(LAT, LON) returns, or raises *)
EvalParse ==
    /\ ev.pc = "parse"
    /\ \E ok \in BOOLEAN :
         ev' = [ev EXCEPT !.parsed = ok,
                          !.pc = IF ok THEN "arima" ELSE "failed_parse"]
    /\ UNCHANGED <<runVars, viewVars, call, batch>>

(* run, lines 55-62: arima_predict_fishing.main() with --horizon           *)
(* str(horizon); it returns the forecast table, or raises (a model does    *)
(* not fit; no forecast of less than one step)                             *)
EvalForecast ==
    /\ ev.pc = "arima"
    /\ \E fit \in BOOLEAN, last \in LastHistorical :
         ev' = IF fit /\ ev.horizon >= 1
               THEN [ev EXCEPT !.pc = "loop", !.last = last,
                               !.future_df = ForecastTable(last, ev.horizon)]
               ELSE [ev EXCEPT !.pc = "failed_arima", !.last = last]
    /\ UNCHANGED <<runVars, viewVars, call, batch>>

(* one turn of "for _, row in future_df.iterrows()", followed for tables   *)
(* of at most MaxRows rows: the frame res gets                             *)
(* the date and the inputs of the row in every row it has and is           *)
(* concatenated to final_results                                           *)
EvalRow ==
    /\ ev.pc = "loop"
    /\ ev.i <= Len(ev.future_df)
    /\ Len(ev.future_df) <= MaxRows
    /\ \E outcome \in EvalOutcomes :
         LET row == ev.future_df[ev.i]
             res == evaluate_fishing_with_gemini(outcome)
             filled == [k \in 1..Len(res) |->
                          [date |-> row.date, rating |-> res[k].rating,
                           moon_phase |-> row.moon_phase, air_temp_C |-> row.air_temp_C]]
         IN  ev' = [ev EXCEPT !.i = @ + 1, !.final_results = @ \o filled]
    /\ UNCHANGED <<runVars, viewVars, call, batch>>

(* final_results.to_csv and the return of run *)
EvalSave ==
    /\ ev.pc = "loop"
    /\ ev.i > Len(ev.future_df)
    /\ ev' = [ev EXCEPT !.pc = "done", !.csv = ev.final_results]
    /\ UNCHANGED <<runVars, viewVars, call, batch>>

InitView ==
    /\ today = 10
    /\ disk = <<>>
    /\ fcout = <<>>
    /\ req = [r \in Requests |-> IdleReq]

InitRun ==
    /\ coordFile = AbsentFile
    /\ yearCsv = {}
    /\ run = [p \in Runs |-> IdleRun]

(* no helper called, no batch and no evaluation loop started *)
InitAux ==
    /\ call = [fn |-> "none"]
    /\ batch = IdleBatch
    /\ ev = IdleEval

Init == InitRun /\ InitView /\ InitAux

(* the store left by an earlier run that registered Kyiv after building    *)
(* its dataset                                                             *)
KyivFile == [st |-> "ok", coords |-> <<[lat |-> 5045010, lon |-> 3052340]>>]

(* the store as found on disk at the start: absent, unreadable, or left by *)
(* an earlier run                                                          *)
InitStore ==
    /\ coordFile \in {AbsentFile, CorruptFile, KyivFile}
    /\ yearCsv = Stored(coordFile)
    /\ run = [p \in Runs |-> IdleRun]
    /\ InitView
    /\ InitAux

RunStep(p) ==
    \/ RunFindExisting(p)
    \/ RunParse(p)
    \/ RunRegister(p)
    \/ RunArima(p)

ViewStep(r) ==
    \/ PostStart(r)
    \/ EnsureCheck(r)
    \/ ParserFetch(r)
    \/ ParserWrite(r)
    \/ ParserFinish(r)
    \/ EnsureManifest(r)
    \/ ViewArima(r)
    \/ ViewReadRow(r)

NextRun == \E p \in Runs : RunStep(p)

NextView == Tick \/ \E r \in Requests : ViewStep(r)

NextBoth == Tick \/ RunStep(1) \/ ViewStep(1)

NextFn == CallCoordToken \/ CallNearest \/ CallPhase \/ CallForecast \/ CallReturn

NextBatch == BatchStart \/ BatchDay \/ BatchSave

NextEval ==
    EvalStart \/ EvalResolve \/ EvalParse \/ EvalForecast \/ EvalRow \/ EvalSave

(* the main_fishing.run invocations alone *)
SpecRun == InitStore /\ [][NextRun]_vars

(* the predict requests alone *)
SpecView == Init /\ [][NextView]_vars

(* one main_fishing.run invocation and one predict request side by side *)
SpecBoth == Init /\ [][NextBoth]_vars

(* the helper functions called on their own *)
SpecFn == Init /\ [][NextFn]_vars

(* one run of a per-day ingestion script *)
SpecBatch == Init /\ [][NextBatch]_vars

(* the evaluation loop of one main_fishing.run invocation *)
SpecEval == Init /\ [][NextEval]_vars

(***************************************************************************)
(* DatasetCache (checked under SpecView).                                  *)
(***************************************************************************)

(* C1: a call of ensure_dataset that starts after another call with the    *)
(* same (activity, coordinate, asof) has returned is a cache hit and makes *)
(* no fetch; no call makes more than one fetch, and a call that returns    *)
(* after a miss has made exactly one: two successive calls, the first      *)
(* successful, fetch once in total.                                        *)
C1_SecondEnsureIsCacheHit ==
    \A r \in Requests :
        /\ req[r].after => req[r].nfetch = 0 /\ req[r].saw # "absent"
        /\ req[r].nfetch <= 1
        /\ (req[r].ensured /\ req[r].saw = "absent") => req[r].nfetch = 1

C1_Witness ==
    \E r, o \in Requests :
        /\ r # o /\ req[r].dir = req[o].dir
        /\ req[o].ensured /\ req[o].saw = "absent" /\ req[o].nfetch = 1
        /\ req[r].after /\ req[r].ensured /\ req[r].nfetch = 0

(* C2, as claimed: when merged.csv exists for the key, ensure_dataset      *)
(* writes nothing: the directory's files are the same after the call as    *)
(* before it.                                                              *)
C2_HitWritesNothing ==
    [][\A r \in Requests :
         (req[r].pc = "manifest" /\ req[r].saw # "absent" /\ req'[r].pc # "manifest")
             => disk' = disk]_vars

(* C2, amended: when merged.csv exists for the key, ensure_dataset starts  *)
(* no fetch and leaves merged.csv as it is, and it rewrites manifest.json  *)
(* with the data of this call.                                             *)
C2_HitKeepsMergedRewritesManifest ==
    [][\A r \in Requests :
         LET d == dataset_dir("fishing", req[r].lat, req[r].lon, req[r].asof)
         IN  /\ (req[r].pc = "ensure" /\ req'[r].pc # "ensure" /\ merged_exists(disk, d))
                    => req'[r].pc = "manifest" /\ disk' = disk
             /\ (req[r].pc = "manifest" /\ req'[r].pc # "manifest" /\ req[r].saw # "absent")
                    => /\ disk'[d].merged = disk[d].merged
                       /\ disk'[d].manifest.st = "ensure"
                       /\ disk'[d].manifest.by = r
                       /\ req'[r].nfetch = 0]_vars

C2_Witness ==
    \E r \in Requests :
        /\ req[r].ensured /\ req[r].saw # "absent" /\ req[r].nfetch = 0
        /\ disk[req[r].dir].manifest.by = r
        /\ disk[req[r].dir].merged.by # r

(* C3: a call of ensure_dataset whose fetch fails ends in failure after    *)
(* that one fetch, having written neither manifest.json nor merged.csv;    *)
(* and every call that finds no merged.csv for its key goes on to fetch,   *)
(* so a later call with the same key attempts the fetch again.             *)
C3_FetchFailurePropagates ==
    \A r \in Requests :
        /\ req[r].fetchFailed =>
              /\ req[r].pc = "failed_ensure" /\ req[r].nfetch = 1
              /\ ~req[r].wroteManifest /\ ~req[r].wroteMerged /\ ~req[r].ensured
        /\ (req[r].saw = "absent" /\ req[r].pc \notin {"idle", "rejected", "ensure"})
              => req[r].pc = "fetch" \/ req[r].nfetch = 1
        /\ (req[r].afterFail /\ ~merged_exists(disk, req[r].dir)
              /\ req[r].pc \notin {"fetch", "write"}) => req[r].nfetch = 1

C3_Witness ==
    \E r, o \in Requests :
        /\ r # o /\ req[r].dir = req[o].dir
        /\ req[r].fetchFailed /\ req[r].pc = "failed_ensure"
        /\ ~merged_exists(disk, req[r].dir)
        /\ req[o].afterFail /\ req[o].saw = "absent" /\ req[o].nfetch = 1

(* C4, as claimed: a call of ensure_dataset that finds merged.csv present  *)
(* but corrupt fetches the dataset again, and no forecast step is handed a *)
(* corrupt series.                                                         *)
C4_CorruptIsRefetched ==
    \A r \in Requests :
        /\ (req[r].saw = "corrupt" /\ req[r].pc # "ensure")
              => req[r].pc = "fetch" \/ req[r].nfetch >= 1
        /\ req[r].used.st # "corrupt"

(***************************************************************************)
(* CoordinateResolver and main_fishing.run (checked under SpecRun).        *)
(***************************************************************************)

Resolved(p) == run[p].pc # "idle"

(* C5: whenever the store holds a coordinate within 20 km of the query,    *)
(* find_existing returns found = true and a coordinate of the store.       *)
C5_FoundReturnsStored ==
    \A p \in Runs :
        (Resolved(p) /\ HasClose(run[p].seen, run[p].lat, run[p].lon))
            => /\ run[p].flag
               /\ <<run[p].LAT, run[p].LON>> \in Stored(run[p].seen)

C5_Witness ==
    \E p \in Runs :
        /\ Resolved(p) /\ HasClose(run[p].seen, run[p].lat, run[p].lon)
        /\ run[p].flag
        /\ <<run[p].LAT, run[p].LON>> # <<run[p].lat, run[p].lon>>
        /\ <<run[p].LAT, run[p].LON>> \in Stored(run[p].seen)

(* C6: find_existing leaves the store as it is, and two calls with the     *)
(* same query and no registration between them return the same result.     *)
C6_FindExistingIsPureRead ==
    /\ [][\A p \in Runs : (run[p].pc = "idle" /\ run'[p].pc # "idle")
                              => coordFile' = coordFile]_vars
    /\ [](\A p, o \in Runs :
            (Resolved(p) /\ Resolved(o) /\ run[p].ver = run[o].ver
               /\ run[p].lat = run[o].lat /\ run[p].lon = run[o].lon)
              => /\ run[p].flag = run[o].flag
                 /\ run[p].LAT = run[o].LAT /\ run[p].LON = run[o].LON
                 /\ (run[p].pc = "failed_find") = (run[o].pc = "failed_find"))

C6_Witness ==
    \E p, o \in Runs :
        /\ p # o /\ Resolved(p) /\ Resolved(o) /\ run[p].ver = run[o].ver
        /\ run[p].lat = run[o].lat /\ run[p].lon = run[o].lon
        /\ run[p].flag /\ run[o].flag /\ run[p].LAT = run[o].LAT

(* C7, as claimed: with a corrupt or unreadable store find_existing        *)
(* returns (false, (lat, lon)) and raises nothing.                         *)
C7_CorruptStoreIsMiss ==
    \A p \in Runs :
        (Resolved(p) /\ run[p].seen.st = "corrupt")
            => /\ run[p].pc # "failed_find"
               /\ ~run[p].flag
               /\ <<run[p].LAT, run[p].LON>> = <<run[p].lat, run[p].lon>>

C10_NearbyRequestReusesDataset ==
    /\ \A p \in Runs :
          (run[p].pc \in {"done", "failed_arima"}
             /\ HasClose(run[p].seen, run[p].lat, run[p].lon))
            => run[p].csv \in Stored(run[p].seen)
    /\ \A r \in Requests :
          (req[r].near /\ req[r].pc \notin {"idle", "rejected", "ensure"})
            => /\ \E c \in Stored(coordFile) :
                     req[r].dir = dataset_dir("fishing", c[1], c[2], req[r].asof)
               /\ req[r].nfetch = 0

(***************************************************************************)
(* C11: the horizon calculator returns asof = today - lag_days and horizon *)
(* = (target - asof) in days, as the view's compute_effective_horizon and   *)
(* as the predictor's compute_asof_and_horizon; on the same day, for the    *)
(* same target and lag, the two return the same two values.                 *)
(***************************************************************************)
C11_HorizonPair ==
    \A r \in Requests :
        /\ req[r].pc # "idle" =>
              /\ req[r].asof = req[r].day - LAG_DAYS
              /\ req[r].horizon = req[r].target - req[r].asof
        /\ req[r].day2 # 0 =>
              /\ req[r].asof2 = req[r].day2 - LAG_DAYS
              /\ req[r].horizon2 = req[r].target - req[r].asof2
        /\ (req[r].day2 # 0 /\ req[r].day2 = req[r].day) =>
              /\ req[r].asof2 = req[r].asof
              /\ req[r].horizon2 = req[r].horizon

(* today 10, target 10, lag 3: asof 7 and horizon 3 from both calculators *)
C11_Witness ==
    \E r \in Requests :
        /\ req[r].day = 10 /\ req[r].day2 = 10 /\ req[r].target = 10
        /\ req[r].asof = 7 /\ req[r].horizon = 3
        /\ req[r].asof2 = 7 /\ req[r].horizon2 = 3

(***************************************************************************)
(* C12, as the claim states it: when the computed horizon is not positive  *)
(* the horizon calculator fails and returns no pair to its caller.         *)
(***************************************************************************)
C12_NonPositiveHorizonRaises ==
    \A r \in Requests :
        (req[r].pc # "idle" /\ req[r].target - (req[r].day - LAG_DAYS) <= 0)
            => ~req[r].returned

(***************************************************************************)
(* C12, amended: the calculators return the pair for every target; it is   *)
(* the caller that stops on a horizon that is not positive: the view       *)
(* answers 400 before any dataset work, the predictor exits before it      *)
(* reads the series or writes a forecast.                                  *)
(***************************************************************************)
C12_NonPositiveHorizonStopsCaller ==
    \A r \in Requests :
        /\ (req[r].pc # "idle" /\ req[r].horizon <= 0) =>
              /\ req[r].returned
              /\ req[r].pc = "rejected"
              /\ req[r].dir = <<>> /\ req[r].nfetch = 0 /\ req[r].day2 = 0
        /\ (req[r].day2 # 0 /\ req[r].horizon2 <= 0) =>
              /\ req[r].pc = "failed_arima"
              /\ req[r].row = 0
              /\ \A d \in DOMAIN fcout : \A i \in 1..Len(fcout[d]) : fcout[d][i].by # r

(* one request answered 400 on a horizon of zero, another stopped in the   *)
(* predictor on a horizon of zero after midnight                           *)
C12_Witness ==
    \E r1, r2 \in Requests :
        /\ req[r1].pc = "rejected" /\ req[r1].horizon = 0 /\ req[r1].returned
        /\ req[r2].pc = "failed_arima" /\ req[r2].horizon = 1 /\ req[r2].horizon2 = 0

(***************************************************************************)
(* C20: run_arima_and_read_row returns the forecast row dated the target   *)
(* or fails; it never returns a row of another date.                       *)
(***************************************************************************)
C20_RowDatedTarget ==
    \A r \in Requests : req[r].pc = "done" => req[r].row = req[r].target

(***************************************************************************)
(* C13: for a historical series and a horizon h >= 1 the forecast table    *)
(* has exactly h rows; their dates start one frequency step after the last  *)
(* historical date and advance by one step per row, so they are strictly    *)
(* increasing and none is on or before the last historical date.            *)
(***************************************************************************)
C13_ForecastIndex ==
    (call.fn = "arima_main" /\ call.out.ok) =>
        LET rows == call.out.rows
            n == Len(call.series)
            last == call.series[n].date
            even == \A i \in 1..(n - 1) :
                        call.series[i + 1].date - call.series[i].date
                            = call.series[2].date - call.series[1].date
        IN  /\ call.horizon >= 1
            /\ Len(rows) = call.horizon
            /\ \E step \in 1..2 :
                  /\ even => step = call.series[2].date - call.series[1].date
                  /\ rows[1].date = last + step
                  /\ \A i \in 1..(Len(rows) - 1) : rows[i + 1].date = rows[i].date + step
            /\ \A i \in 1..(Len(rows) - 1) : rows[i + 1].date > rows[i].date
            /\ \A i \in 1..Len(rows) : rows[i].date > last

(* a series dated every other day forecast three steps ahead *)
C13_Witness ==
    /\ call.fn = "arima_main" /\ call.out.ok
    /\ call.horizon = 3
    /\ call.series[2].date - call.series[1].date = 2
    /\ call.out.rows[1].date = call.series[Len(call.series)].date + 2
    /\ call.out.rows[3].date = call.series[Len(call.series)].date + 6

C16_PhaseInUnitInterval ==
    call.fn = "lunar_phase_fraction" =>
        /\ call.out >= 0 /\ call.out < 10000
        /\ \E k \in -4..400 :
              LET r == (call.d * 100000 + 50000) - k * SYNODIC_MONTH
              IN  /\ 0 <= r /\ r < SYNODIC_MONTH
                  /\ call.out = Quot(r, SYNODIC_MONTH, 4)

(* the day before the epoch: fraction 0.9830 *)
C16_Witness ==
    /\ call.fn = "lunar_phase_fraction"
    /\ call.d = -1
    /\ call.out = 9830

(***************************************************************************)
(* C17: coord_token depends only on the coordinate quantized to 4 decimal  *)
(* digits: two coordinates whose latitude and longitude round to the same  *)
(* 4-decimal values, also -0.00001 and +0.00001, give the same token and   *)
(* the same dataset directory.                                             *)
(***************************************************************************)
C17_TokenOfQuantizedPoint ==
    call.fn = "coord_token" =>
        LET round4(v) == Sgn(v) * ((Abs(v) + 5) \div 10)
        IN  (round4(call.a[1]) = round4(call.b[1]) /\ round4(call.a[2]) = round4(call.b[2]))
                => (call.ta = call.tb /\ call.da = call.db)

(***************************************************************************)
(* C18: in every per-day ingestion batch a failure while one day is        *)
(* processed - a request error, a malformed or null-containing response,   *)
(* the -999.0 sentinel - is recorded as an error for that day and never    *)
(* aborts the batch: the records of all other days are collected and saved. *)
(***************************************************************************)
C18_DayFailureNeverAborts ==
    batch.pc # "idle" =>
        /\ batch.pc # "aborted"
        /\ batch.pc = "done" =>
              \A d \in BatchDays :
                 IF batch.power[d] = "ok" /\ batch.archive[d] \in {"ok", "none"}
                 THEN \E k \in 1..Len(batch.saved) : batch.saved[k] = d
                 ELSE \E k \in 1..Len(batch.errors) : batch.errors[k] = d

(***************************************************************************)
(* C19: in main_fishing.run, whatever the evaluation call of a row comes   *)
(* to (success, API exception, malformed response, missing API key), the   *)
(* final table has exactly one row per forecast row, in forecast order,    *)
(* with that row's date, moon_phase and numeric values unchanged.          *)
(***************************************************************************)
C19_OneRowPerForecastRow ==
    ev.pc = "done" =>
        /\ Len(ev.csv) = Len(ev.future_df)
        /\ \A i \in 1..Len(ev.csv) :
              /\ ev.csv[i].date = ev.future_df[i].date
              /\ ev.csv[i].moon_phase = ev.future_df[i].moon_phase
              /\ ev.csv[i].air_temp_C = ev.future_df[i].air_temp_C

(***************************************************************************)
(* C21: when the model of a target does not fit, the forecast run fails,   *)
(* the failure reaches the caller and no forecast table is written; no     *)
(* forecast table lacks the column of a target.                            *)
(***************************************************************************)
C21_FitFailureWritesNoTable ==
    /\ \A r \in Requests :
          req[r].fitFailed =>
              /\ req[r].pc = "failed_arima"
              /\ req[r].row = 0
              /\ \A d \in DOMAIN fcout : \A i \in 1..Len(fcout[d]) : fcout[d][i].by # r
    /\ \A d \in DOMAIN fcout : \A i \in 1..Len(fcout[d]) : fcout[d][i].cols = TARGETS

(* a request whose fit failed beside one whose forecast table was written *)
C21_Witness ==
    \E r1, r2 \in Requests :
        /\ req[r1].fitFailed /\ req[r1].pc = "failed_arima"
        /\ req[r2].pc = "done"
        /\ \E d \in DOMAIN fcout : \E i \in 1..Len(fcout[d]) : fcout[d][i].by = r2

(***************************************************************************)
(* C26: two predict requests for the same activity, coordinate and as-of   *)
(* date but different target dates that overlap in time each return the    *)
(* row of their own forecast run; neither reads the forecast file the      *)
(* other wrote.                                                            *)
(***************************************************************************)
C26_ReadsOwnForecast ==
    \A r, o \in Requests :
        (/\ req[r].pc = "done"
         /\ o # r /\ req[o].dir = req[r].dir /\ req[o].target # req[r].target)
            => (req[r].from = r /\ req[r].row = req[r].target)

(***************************************************************************)
(* C27: within one predict request the forecast step uses the as-of date,  *)
(* the dataset directory and the horizon of the view, also when the day    *)
(* changes between the view's computation and the predictor's own.         *)
(***************************************************************************)
C27_PredictorUsesViewAsof ==
    \A r \in Requests :
        req[r].day2 # 0 =>
            /\ req[r].asof2 = req[r].asof
            /\ req[r].horizon2 = req[r].horizon
            /\ dataset_dir("fishing", req[r].lat, req[r].lon, req[r].asof2) = req[r].dir

(***************************************************************************)
(* C29: ensure_dataset takes a dataset as present only after the ingestion *)
(* that produces it has completed: while the ingestion of one request for  *)
(* a key is in progress no other request for that key skips the fetch and  *)
(* goes on, and at most one ingestion runs per key.                        *)
(***************************************************************************)
C29_OneIngestionPerKey ==
    \A r1, r2 \in Requests :
        (r1 # r2 /\ req[r1].dir # <<>> /\ req[r1].dir = req[r2].dir) =>
            /\ ~(req[r1].pc \in {"fetch", "write", "finish"}
                 /\ req[r2].pc \in {"fetch", "write", "finish"})
            /\ ~(req[r1].pc \in {"fetch", "write", "finish"}
                 /\ req[r2].nfetch = 0
                 /\ req[r2].pc \in {"manifest", "arima", "read", "done", "failed_arima"})


(***************************************************************************)
(* C23: when several stored coordinates lie within MAX_DISTANCE_KM of the  *)
(* query, the coordinate find_existing returns is the stored one at the    *)
(* least haversine distance from the query, whatever the order of the      *)
(* store.                                                                  *)
(***************************************************************************)
C23_ReturnsNearest ==
    \A p \in Runs :
        (Resolved(p) /\ run[p].flag) =>
            \A i \in 1..Len(run[p].seen.coords) :
                haversine(run[p].lat, run[p].lon, run[p].LAT, run[p].LON)
                    <= haversine(run[p].lat, run[p].lon,
                                 run[p].seen.coords[i].lat, run[p].seen.coords[i].lon)


(***************************************************************************)
(* C25: every row of the future regressors is the training encoding of the *)
(* label predicted for its day: 1 in the training column of that label, 0  *)
(* in the others, all 0 only for the reference category of the training    *)
(* series (its first category, whose column drop_first leaves out); for    *)
(* every set of training labels and every horizon.                         *)
(***************************************************************************)
C25_FutureExogIsTrainingEncoding ==
    (call.fn = "arima_main" /\ call.out.ok) =>
        LET train == {call.series[j].moon_phase : j \in 1..Len(call.series)}
            reference == first_category(train)
        IN  /\ call.out.exog_future.columns = call.out.exog_train.columns
            /\ Len(call.out.exog_future.rows) = Len(call.out.rows)
            /\ \A i \in 1..Len(call.out.rows) :
                  call.out.exog_future.rows[i] =
                      IF call.out.rows[i].moon_phase = reference THEN {}
                      ELSE {call.out.rows[i].moon_phase}

(***************************************************************************)
(* C28: on every entry path the fit of a model is reached only with a      *)
(* horizon of at least 1; the predictor called with an explicit --horizon  *)
(* is one of these paths.                                                  *)
(***************************************************************************)
C28_FitOnlyWithPositiveHorizon ==
    (call.fn = "arima_main" /\ call.out.fitted) => call.horizon >= 1


(* how often day d occurs in the sequence s *)
Occurrences(s, d) == Cardinality({k \in 1..Len(s) : s[k] = d})

(***************************************************************************)
(* C30: in the fishing and the forest batch every submitted day is         *)
(* accounted for exactly once, by one record or by one error and never by  *)
(* both or by neither, in whatever order the days complete; and the table  *)
(* saved holds the days that gave a record in ascending order of date,     *)
(* whatever that order was.                                                *)
(***************************************************************************)
C30_EveryDayOnceSortedTable ==
    (batch.pc # "idle" /\ batch.script \in {"fishing", "forest"}) =>
        /\ \A d \in BatchDays :
              Occurrences(batch.records, d) + Occurrences(batch.errors, d)
                  = IF d \in batch.pending THEN 0 ELSE 1
        /\ batch.pc = "done" =>
              /\ batch.pending = {}
              /\ batch.saved = Ascending({d \in BatchDays : batch.power[d] = "ok"})
              /\ batch.wrote = (\E d \in BatchDays : batch.power[d] = "ok")

(* the later day completed first, both days gave a record, and the table   *)
(* saved is in date order                                                  *)
C30_Witness ==
    /\ batch.pc = "done" /\ batch.script = "forest"
    /\ Len(batch.records) >= 2
    /\ batch.records[1] > batch.records[2]
    /\ batch.saved[1] < batch.saved[2]


(***************************************************************************)
(* C22: an orchestrated request takes its steps in the order horizon,      *)
(* coordinate resolution, dataset ensure, forecast: the forecast is not    *)
(* started unless the dataset was ensured in the request, and the ensure   *)
(* is not started unless the horizon was computed and found positive.      *)
(***************************************************************************)
C22_StepsInOrder ==
    ev.pc # "idle" =>
        /\ ev.parsing => ev.horizon >= 1
        /\ ev.pc \in {"arima", "loop", "done", "failed_arima"}
               => (ev.flag \/ ev.parsed)

(***************************************************************************)
(* C24: run called with a target_date forecasts until target_date: the     *)
(* number of steps is the one target_date gives, counted from the last     *)
(* historical date, and the last forecast row is dated target_date.        *)
(***************************************************************************)
C24_ForecastUntilTargetDate ==
    (ev.pc \in {"loop", "done"} /\ ev.target_date # <<>>) =>
        /\ Len(ev.future_df) = ev.target_date[1] - ev.last
        /\ ev.future_df[Len(ev.future_df)].date = ev.target_date[1]

====
